---- MODULE Spec2Model ----
(***************************************************************************)
(* Fuzzy coverage model of adolphus: the single-camera membership          *)
(* function Camera.mu and the n-ocular MultiCamera network                 *)
(* (src/adolphus/coverage.py).                                             *)
(*                                                                         *)
(* Numbers.  Membership degrees are fixed-point integers: the degree d of  *)
(* the program is the integer d * Scale, so [0,1] is 0..Scale.  Ratios     *)
(* (x/z, x/r) use the same scale.  Angles are whole degrees (pi = 180).    *)
(* Coordinates and depths are whole length units.                          *)
(***************************************************************************)
EXTENDS Integers, FiniteSets, Sequences, TLC

\* ------------------------------------------------------------------------
\* Bounds of the model
\* ------------------------------------------------------------------------
MaxOcular == 2
MaxPoints == 2

\* ------------------------------------------------------------------------
\* Fixed-point arithmetic
\* ------------------------------------------------------------------------
Scale == 100

Abs(a) == IF a < 0 THEN -a ELSE a

Sgn(a) == IF a < 0 THEN -1 ELSE IF a > 0 THEN 1 ELSE 0

\* a / b of the program (float division, b # 0), rounded toward zero.
Quot(a, b) == Sgn(a) * Sgn(b) * (Abs(a) \div Abs(b))

Min2(a, b) == IF a <= b THEN a ELSE b

Max2(a, b) == IF a >= b THEN a ELSE b

\* math.sqrt(n) of a non-negative integer n <= top * top, rounded down.
Isqrt(n, top) == CHOOSE r \in 0..top : r * r <= n /\ (r + 1) * (r + 1) > n

\* math.sin / math.cos on the right angles the model's points use.
SinDeg(a) == CASE a % 360 = 0 -> 0
               [] a % 360 = 90 -> 1
               [] a % 360 = 180 -> 0
               [] a % 360 = 270 -> -1

CosDeg(a) == SinDeg(a + 90)

\* math.atan(t) in degrees for t = ts / Scale, 0 <= ts <= Scale:
\* 45 t + 15.64 t (1 - t).
AtanUnit(ts) == (4500 * ts + (1564 * ts * (Scale - ts)) \div Scale) \div (Scale * Scale)

\* math.atan(num / den) in degrees, den # 0; the result lies in -90..90.
AtanDeg(num, den) ==
    LET n == Abs(num)
        d == Abs(den)
        a == IF n <= d THEN AtanUnit((n * Scale) \div d)
                       ELSE 90 - AtanUnit((d * Scale) \div n)
    IN  Sgn(num) * Sgn(den) * a

\* ------------------------------------------------------------------------
\* Geometry: points, directional points, poses
\* ------------------------------------------------------------------------
Pt(x, y, z) == [x |-> x, y |-> y, z |-> z, dir |-> FALSE, rho |-> 0, eta |-> 0]

DPt(x, y, z, rho, eta) == [x |-> x, y |-> y, z |-> z, dir |-> TRUE, rho |-> rho, eta |-> eta]

\* A pose is a translation T and a rotation R: "I" (identity) or "X180"
\* (half turn about the x axis, a camera looking down the world -z axis).
MkPose(tx, ty, tz, r) == [T |-> [x |-> tx, y |-> ty, z |-> tz], R |-> r]

\* (-pose).map(point): the point in the frame of the pose.
InvMap(pose, p) ==
    LET dx == p.x - pose.T.x
        dy == p.y - pose.T.y
        dz == p.z - pose.T.z
    IN  IF pose.R = "I"
        THEN [p EXCEPT !.x = dx, !.y = dy, !.z = dz]
        ELSE [p EXCEPT !.x = dx, !.y = -dy, !.z = -dz,
                       !.rho = IF p.dir THEN 180 - p.rho ELSE 0,
                       !.eta = IF p.dir THEN (360 - p.eta) % 360 ELSE 0]

\* ------------------------------------------------------------------------
\* Fuzzy numbers and fuzzy sets (fuzz library contract)
\* ------------------------------------------------------------------------
\* TrapezoidalFuzzyNumber(kernel, support)
Trap(k0, k1, s0, s1) == [k0 |-> k0, k1 |-> k1, s0 |-> s0, s1 |-> s1]

\* TrapezoidalFuzzyNumber.mu(v): 1 on the kernel, 0 outside the support,
\* linear in between.
TrapMu(t, v) ==
    IF v >= t.k0 /\ v <= t.k1 THEN Scale
    ELSE IF v > t.s0 /\ v < t.k0 THEN (Scale * (v - t.s0)) \div (t.k0 - t.s0)
    ELSE IF v < t.s1 /\ v > t.k1 THEN (Scale * (t.s1 - v)) \div (t.s1 - t.k1)
    ELSE 0

\* A FuzzySet is a function from its keys (points) to degrees.
EmptyFuzzySet == [p \in {} |-> 0]

\* FuzzySet | FuzzySet: pointwise maximum over the union of the keys.
FuzzyUnion(f, g) ==
    [p \in (DOMAIN f) \cup (DOMAIN g) |->
        IF p \in DOMAIN f /\ p \in DOMAIN g THEN Max2(f[p], g[p])
        ELSE IF p \in DOMAIN f THEN f[p] ELSE g[p]]

\* FuzzySet & FuzzySet: pointwise minimum over the common keys.
FuzzyIntersection(f, g) ==
    [p \in (DOMAIN f) \cap (DOMAIN g) |-> Min2(f[p], g[p])]

\* ------------------------------------------------------------------------
\* Camera (coverage.py, class Camera)
\* ------------------------------------------------------------------------
\* The fields Camera.__init__ leaves on the object: the two visibility
\* numbers Cv (ratios, scaled), the resolution number Cr and the focus
\* number Cf (depths), the direction fuzzifier zeta (degrees), the pose.
MkCamera(cvh, cvv, cr, cf, zeta, pose) ==
    [class |-> "Camera", Cv |-> <<cvh, cvv>>, Cr |-> cr, Cf |-> cf, zeta |-> zeta,
     pose |-> pose]

\* visibility: min([Cv.mu(campoint.x / campoint.z) for Cv in self.Cv]),
\* 0.0 on ZeroDivisionError.
MuV(cam, cp) ==
    IF cp.z = 0 THEN 0
    ELSE Min2(TrapMu(cam.Cv[1], Quot(cp.x * Scale, cp.z)),
              TrapMu(cam.Cv[2], Quot(cp.x * Scale, cp.z)))

\* resolution: self.Cr.mu(campoint.z)
MuR(cam, cp) == TrapMu(cam.Cr, cp.z)

\* focus: self.Cf.mu(campoint.z)
MuF(cam, cp) == TrapMu(cam.Cf, cp.z)

\* r = sqrt(campoint.x ** 2 + campoint.y ** 2), scaled
RScaled(cp) ==
    Isqrt(Scale * Scale * (cp.x * cp.x + cp.y * cp.y), Scale * (Abs(cp.x) + Abs(cp.y)))

\* terma, scaled; 1.0 on ZeroDivisionError (r = 0)
TermA(cp) ==
    IF RScaled(cp) = 0 THEN Scale
    ELSE Quot(cp.y * Scale * Scale, RScaled(cp)) * SinDeg(cp.eta)
         + Quot(cp.x * Scale * Scale, RScaled(cp)) * CosDeg(cp.eta)

\* termb in degrees; pi / 2 on ZeroDivisionError (z = 0)
TermB(cp) == IF cp.z = 0 THEN 90 ELSE AtanDeg(RScaled(cp), cp.z * Scale)

\* (rho - (pi / 2 + terma * termb)) / zeta, scaled, before clamping
DirRaw(cam, cp) ==
    Quot(Scale * (cp.rho - (90 + Quot(TermA(cp) * TermB(cp), Scale))), cam.zeta)

\* faulty variant of MuD: the direction term without its clamp
MuDUnclamped(cam, cp) == IF cp.dir THEN DirRaw(cam, cp) ELSE Scale

\* direction: min(max(raw, 0.0), 1.0) for a directional point, else 1.0
MuD(cam, cp) ==
    IF cp.dir THEN Min2(Max2(DirRaw(cam, cp), 0), Scale) ELSE Scale

\* Camera.mu(point): algebraic product of the four terms
CameraMu(cam, point) ==
    LET cp == InvMap(cam.pose, point)
    IN  Quot(Quot(Quot(MuV(cam, cp) * MuR(cam, cp), Scale) * MuF(cam, cp), Scale)
             * MuD(cam, cp), Scale)

\* ------------------------------------------------------------------------
\* Scene (scene.Scene, interface of section 4.2)
\* ------------------------------------------------------------------------
\* An opaque rectangle in the plane z = h, x in x0..x1, y in y0..y1.
Plate(h, x0, x1, y0, y1) == [h |-> h, x0 |-> x0, x1 |-> x1, y0 |-> y0, y1 |-> y1]

\* The segment from ref to p meets the plate strictly between its ends.
Blocks(pl, p, ref) ==
    LET dz == p.z - ref.z
        n  == pl.h - ref.z
        d  == Abs(dz)
        m  == Sgn(dz) * n
        cx == ref.x * d + m * (p.x - ref.x)
        cy == ref.y * d + m * (p.y - ref.y)
    IN  /\ dz # 0
        /\ m > 0
        /\ m < d
        /\ pl.x0 * d <= cx /\ cx <= pl.x1 * d
        /\ pl.y0 * d <= cy /\ cy <= pl.y1 * d

\* Scene.occluded(point, reference)
Occluded(scene, p, ref) == \E pl \in scene : Blocks(pl, p, ref)

\* ------------------------------------------------------------------------
\* The objects the operations are called with
\* ------------------------------------------------------------------------
\* Camera names, in the order the dict enumerates them.
KeyOrder == <<"a", "b", "c">>

Keys == {KeyOrder[i] : i \in 1..Len(KeyOrder)}

Wide == Trap(-120, 120, -150, 150)

Narrow == Trap(-50, 50, -90, 90)

Res == Trap(0, 1, 0, 6)

Focus == Trap(1, 4, 0, 8)

\* at the origin, looking along +z
CamA == MkCamera(Wide, Wide, Res, Focus, 30, MkPose(0, 0, 0, "I"))

\* one unit behind CamA
CamB == MkCamera(Wide, Narrow, Res, Focus, 30, MkPose(0, 0, -1, "I"))

\* above the scene, looking down along -z
CamC == MkCamera(Wide, Wide, Res, Focus, 60, MkPose(2, 0, 4, "X180"))

CameraSet == {CamA, CamB, CamC}

\* a value that is not a Camera
NotACamera == [class |-> "object"]

\* the points add_point and mu are called with
PointSet ==
    { Pt(0, 0, 2), Pt(2, 0, 2), DPt(0, 0, 2, 180, 0), DPt(1, 0, 2, 120, 0) }

\* the scene: one opaque plate between CamA, CamB and the point (2, 0, 2)
TheScene == { Plate(1, 1, 2, -1, 1) }

\* desired-coverage models handed to performance()
DesiredSet ==
    { [p \in {Pt(0, 0, 2)} |-> Scale],
      [p \in {Pt(0, 0, 2), Pt(2, 0, 2)} |-> Scale] }

NoValue == "none"

NoArg == [none |-> TRUE]

NoSnapshot == [taken |-> FALSE, model |-> << >>]

Snap(m) == [taken |-> TRUE, model |-> m]

\* ------------------------------------------------------------------------
\* MultiCamera (coverage.py, class MultiCamera): state
\* ------------------------------------------------------------------------
VARIABLES
    status,         \* "new" before MultiCamera(...), "ready" after it, "failed" if it raised
    ocular,         \* self.ocular
    cameras,        \* the dict itself: camera name -> Camera
    inscene,        \* camera name -> that camera's inscene FuzzySet
    points,         \* self.points
    model,          \* self.model
    model_updated,  \* self.model_updated
    op,             \* the last call made on the network
    err,            \* the exception that call raised, or "ok"
    arg,            \* the argument of that call, when it is a query
    ret,            \* the value that call returned, or NoValue
    combSizes,      \* the sizes of the combinations the last update_model enumerated
    snapshot,       \* the model as it was when a camera was last added under a new
                    \* name to a network whose flag was clear (history, see Snap)
    items,          \* a RangeModel, the dict itself: object name -> object
    lasers,         \* a RangeModel's self.lasers
    calls,          \* the target poses at which the last call ran project (history)
    streak,         \* 2 when the last project call repeated the one before it,
                    \* 1 for any other project call, else 0 (history)
    networks,       \* two further MultiCamera objects, by name (see NoNetwork)
    default_points  \* the set object that is the default value of the points
                    \* parameter of MultiCamera.__init__, made once with the class

vars == <<status, ocular, cameras, inscene, points, model, model_updated,
          op, arg, err, ret, combSizes, snapshot, items, lasers, calls, streak,
          networks, default_points>>

rangeVars == <<items, lasers, calls, streak>>

pairVars == <<networks, default_points>>

NetNames == {"n1", "n2"}

\* a name MultiCamera(...) has not been bound to yet; a bound one has built =
\* TRUE, shared = TRUE when self.points is the default set object and FALSE
\* when it is a set of its own (then own holds its elements), and added is
\* the history of the points add_point was called with on this network
NoNetwork ==
    [built |-> FALSE, shared |-> FALSE, own |-> {}, ocular |-> 0,
     cameras |-> << >>, inscene |-> << >>, model |-> << >>,
     model_updated |-> FALSE, added |-> {}]

EmptyDict == [k \in {} |-> NoValue]

\* dict.__setitem__
DictSet(d, key, value) ==
    [k \in (DOMAIN d) \cup {key} |-> IF k = key THEN value ELSE d[k]]

\* ------------------------------------------------------------------------
\* MultiCamera: helpers of the methods
\* ------------------------------------------------------------------------
\* self[key].mu(point) and self.scene.occluded(point, self[key].pose.T) for
\* the cameras and points of the model, evaluated once
MuOf == [cam \in CameraSet |-> [p \in PointSet |-> CameraMu(cam, p)]]

OccludedOf ==
    [cam \in CameraSet |-> [p \in PointSet |-> Occluded(TheScene, p, cam.pose.T)]]

\* faulty variant of Covers: the test without the occlusion check
CoversIgnoringOcclusion(cam, point) == MuOf[cam][point] > 0

\* the test both update_inscene and add_point apply to one point
Covers(cam, point) == MuOf[cam][point] > 0 /\ ~OccludedOf[cam][point]

\* update_inscene: FuzzySet(mpoints) over the tracked points
InsceneOf(cam, pts) ==
    [p \in {q \in pts : Covers(cam, q)} |-> MuOf[cam][p]]

\* faulty variant of AddToInscene: the new element replaces the set
AddToInsceneReplacing(cam, fs, point) ==
    IF Covers(cam, point)
    THEN [p \in {point} |-> MuOf[cam][point]]
    ELSE fs

\* add_point, one camera: inscene |= FuzzySet([FuzzyElement(point, mu)])
AddToInscene(cam, fs, point) ==
    IF Covers(cam, point)
    THEN FuzzyUnion(fs, [p \in {point} |-> MuOf[cam][point]])
    ELSE fs

\* itertools.combinations(self.keys(), n): the tuples of n names, in dict order
Combinations(names, n) ==
    { SelectSeq(KeyOrder, LAMBDA k : k \in c) :
        c \in {d \in SUBSET names : Cardinality(d) = n} }

\* faulty variant of Submodel: the common points, each with the degree the
\* first camera of the combination gives it
SubmodelFirstDegrees(ins, comb, i) ==
    [p \in {q \in DOMAIN ins[comb[1]] : \A j \in 1..i : q \in DOMAIN ins[comb[j]]}
        |-> ins[comb[1]][p]]

\* faulty variant of Submodel: the first camera's set, never intersected
SubmodelFirstOnly(ins, comb, i) == ins[comb[1]]

\* submodels[-1] = inscene of combination[0]; then &= each further camera's
RECURSIVE Submodel(_, _, _)
Submodel(ins, comb, i) ==
    IF i = 1 THEN ins[comb[1]]
    ELSE FuzzyIntersection(Submodel(ins, comb, i - 1), ins[comb[i]])

\* faulty variant of UnionAll: self.model = submodel, one submodel kept, not the union
UnionAllKeepsOne(subs) ==
    IF subs = {} THEN EmptyFuzzySet
    ELSE CHOOSE t \in subs : \A u \in subs : Cardinality(DOMAIN t) <= Cardinality(DOMAIN u)

\* for submodel in submodels: self.model |= submodel
RECURSIVE UnionAll(_)
UnionAll(subs) ==
    IF subs = {} THEN EmptyFuzzySet
    ELSE LET s == CHOOSE t \in subs : TRUE
         IN  FuzzyUnion(UnionAll(subs \ {s}), s)

\* the model update_model builds
Fuse(ins, n) ==
    UnionAll({ Submodel(ins, comb, n) : comb \in Combinations(DOMAIN ins, n) })

\* the sequences that enumerate the set S once each
PermsOf(S) ==
    { f \in [1..Cardinality(S) -> S] : \A x \in S : \E i \in DOMAIN f : f[i] = x }

\* position of a name in the dict's enumeration
Pos(k) == CHOOSE i \in 1..Len(KeyOrder) : KeyOrder[i] = k

\* itertools.combinations emits c before d
EmittedBefore(c, d) ==
    \E i \in 1..Len(c) :
        /\ \A j \in 1..(i - 1) : c[j] = d[j]
        /\ Pos(c[i]) < Pos(d[i])

\* combinations(self.keys(), n) as the sequence the for loop walks
CombinationSeq(names, n) ==
    CHOOSE s \in PermsOf(Combinations(names, n)) :
        \A i, j \in DOMAIN s : i < j => EmittedBefore(s[i], s[j])

\* faulty variant of IandTarget: the left operand is intersected in place
IandTargetInPlace(target, other) == FuzzyIntersection(target, other)

\* target &= other: what the object that was bound to target holds afterwards
\* (the operator returns a new set and leaves its operands alone)
IandTarget(target, other) == target

\* the in-scene sets once the inner loop has run up to index i over comb:
\* submodels[-1] starts as the inscene object of comb[0] itself
RECURSIVE InsceneAfterCombination(_, _, _)
InsceneAfterCombination(ins, comb, i) ==
    IF i = 1 THEN ins
    ELSE LET prev == InsceneAfterCombination(ins, comb, i - 1)
         IN  [prev EXCEPT ![comb[1]] = IandTarget(prev[comb[1]], prev[comb[i]])]

\* the in-scene sets once the outer loop has walked the first k combinations
RECURSIVE InsceneAfterCombinations(_, _, _)
InsceneAfterCombinations(ins, combs, k) ==
    IF k = 0 THEN ins
    ELSE InsceneAfterCombination(InsceneAfterCombinations(ins, combs, k - 1),
                                 combs[k], Len(combs[k]))

\* the in-scene sets update_model leaves behind
InsceneAfterUpdate(ins, n) ==
    LET combs == CombinationSeq(DOMAIN ins, n)
    IN  InsceneAfterCombinations(ins, combs, Len(combs))

\* FuzzySet.overlap(desired): how much of desired the model covers
RECURSIVE SumOver(_, _)
SumOver(f, dom) ==
    IF dom = {} THEN 0
    ELSE LET p == CHOOSE q \in dom : TRUE
         IN  f[p] + SumOver(f, dom \ {p})

Overlap(m, desired) ==
    LET both == FuzzyIntersection(m, desired)
    IN  (Scale * SumOver(both, DOMAIN both)) \div SumOver(desired, DOMAIN desired)

\* ------------------------------------------------------------------------
\* MultiCamera: the operations
\* ------------------------------------------------------------------------
netVars == <<ocular, cameras, inscene, points, model, model_updated, combSizes>>

Init ==
    /\ status = "new"
    /\ ocular = 0
    /\ cameras = EmptyDict
    /\ inscene = EmptyDict
    /\ points = {}
    /\ model = EmptyFuzzySet
    /\ model_updated = FALSE
    /\ op = "none"
    /\ arg = NoArg
    /\ err = "ok"
    /\ ret = NoValue
    /\ combSizes = {}
    /\ snapshot = NoSnapshot
    /\ items = EmptyDict
    /\ lasers = {}
    /\ calls = << >>
    /\ streak = 0
    /\ networks = [n \in NetNames |-> NoNetwork]
    /\ default_points = {}

\* faulty variant of Construct: the constructor without the ocular < 1 test
ConstructUnchecked(o) ==
    /\ UNCHANGED <<rangeVars, pairVars>>
    /\ status = "new"
    /\ op' = "construct"
    /\ arg' = [ocular |-> o]
    /\ ret' = NoValue
    /\ snapshot' = NoSnapshot
    /\ err' = "ok"
    /\ status' = "ready"
    /\ ocular' = o
    /\ points' = {}
    /\ model' = EmptyFuzzySet
    /\ model_updated' = FALSE
    /\ UNCHANGED <<cameras, inscene, combSizes>>

\* MultiCamera(ocular = o)
Construct(o) ==
    /\ UNCHANGED <<rangeVars, pairVars>>
    /\ status = "new"
    /\ op' = "construct"
    /\ arg' = [ocular |-> o]
    /\ ret' = NoValue
    /\ snapshot' = NoSnapshot
    /\ IF o < 1
       THEN /\ err' = "ValueError"
            /\ status' = "failed"
            /\ UNCHANGED netVars
       ELSE /\ err' = "ok"
            /\ status' = "ready"
            /\ ocular' = o
            /\ points' = {}
            /\ model' = EmptyFuzzySet
            /\ model_updated' = FALSE
            /\ UNCHANGED <<cameras, inscene, combSizes>>

\* network[key] = value: __setitem__, then update_inscene(key)
AddCamera(key, value) ==
    /\ UNCHANGED <<rangeVars, pairVars>>
    /\ status = "ready"
    /\ op' = "add_camera"
    /\ arg' = NoArg
    /\ ret' = NoValue
    /\ IF value.class # "Camera"
       THEN /\ err' = "ValueError"
            /\ snapshot' = NoSnapshot
            /\ UNCHANGED <<status, netVars>>
       ELSE /\ err' = "ok"
            /\ snapshot' = IF key \notin DOMAIN cameras /\ model_updated
                           THEN Snap(model) ELSE NoSnapshot
            /\ cameras' = DictSet(cameras, key, value)
            /\ inscene' = DictSet(inscene, key, InsceneOf(value, points))
            /\ model_updated' = FALSE
            /\ UNCHANGED <<status, ocular, points, model, combSizes>>

\* add_point(point)
AddPoint(point) ==
    /\ UNCHANGED <<rangeVars, pairVars>>
    /\ status = "ready"
    /\ Cardinality(points \cup {point}) <= MaxPoints
    /\ op' = "add_point"
    /\ arg' = [again |-> point \in points]
    /\ snapshot' = NoSnapshot
    /\ ret' = NoValue
    /\ err' = "ok"
    /\ points' = points \cup {point}
    /\ inscene' = [k \in DOMAIN cameras |-> AddToInscene(cameras[k], inscene[k], point)]
    /\ UNCHANGED <<status, ocular, cameras, model, model_updated, combSizes>>

\* faulty variant of UpdateModel: update_model without the too-few-cameras test
UpdateModelUnchecked ==
    /\ UNCHANGED <<rangeVars, pairVars>>
    /\ status = "ready"
    /\ op' = "update_model"
    /\ arg' = NoArg
    /\ ret' = NoValue
    /\ snapshot' = IF op = "add_camera" THEN snapshot ELSE NoSnapshot
    /\ err' = "ok"
    /\ model' = Fuse(inscene, ocular)
    /\ combSizes' = {Len(comb) : comb \in Combinations(DOMAIN cameras, ocular)}
    /\ model_updated' = TRUE
    /\ UNCHANGED <<status, ocular, cameras, inscene, points>>

\* update_model()
UpdateModel ==
    /\ UNCHANGED <<rangeVars, pairVars>>
    /\ status = "ready"
    /\ op' = "update_model"
    /\ arg' = NoArg
    /\ ret' = NoValue
    /\ snapshot' = IF op = "add_camera" THEN snapshot ELSE NoSnapshot
    /\ IF Cardinality(DOMAIN cameras) < ocular
       THEN /\ err' = "ValueError"
            /\ UNCHANGED <<status, netVars>>
       ELSE /\ err' = "ok"
            /\ model' = Fuse(inscene, ocular)
            /\ combSizes' = {Len(comb) : comb \in Combinations(DOMAIN cameras, ocular)}
            /\ model_updated' = TRUE
            /\ inscene' = InsceneAfterUpdate(inscene, ocular)
            /\ UNCHANGED <<status, ocular, cameras, points>>

\* mu(point): the fallback names the undefined variable n
Mu(point) ==
    /\ UNCHANGED <<rangeVars, pairVars>>
    /\ status = "ready"
    /\ op' = "mu"
    /\ arg' = [point |-> point]
    /\ snapshot' = NoSnapshot
    /\ IF Cardinality(DOMAIN cameras) < ocular
       THEN err' = "ValueError" /\ ret' = NoValue
       ELSE IF point \in DOMAIN model
       THEN err' = "ok" /\ ret' = model[point]
       ELSE err' = "NameError" /\ ret' = NoValue
    /\ UNCHANGED <<status, netVars>>

\* performance(desired)
Performance(desired) ==
    /\ UNCHANGED <<rangeVars, pairVars>>
    /\ status = "ready"
    /\ op' = "performance"
    /\ arg' = [desired |-> desired]
    /\ snapshot' = NoSnapshot
    /\ err' = "ok"
    /\ ret' = Overlap(model, desired)
    /\ UNCHANGED <<status, netVars>>

Next ==
    \/ \E o \in 0..MaxOcular : Construct(o)
    \/ \E key \in Keys, value \in CameraSet \cup {NotACamera} : AddCamera(key, value)
    \/ \E point \in PointSet : AddPoint(point)
    \/ UpdateModel
    \/ \E point \in PointSet : Mu(point)
    \/ \E desired \in DesiredSet : Performance(desired)

Spec == Init /\ [][Next]_vars

\* ------------------------------------------------------------------------
\* Reference definitions used to state the properties
\* ------------------------------------------------------------------------
SetMax(S) == CHOOSE m \in S : \A x \in S : x <= m

SetMin(S) == CHOOSE m \in S : \A x \in S : m <= x

Enough == Cardinality(DOMAIN cameras) >= ocular

\* the unordered combinations of n camera names all of which hold point p
CombosHolding(ins, n, p) ==
    { c \in SUBSET (DOMAIN ins) :
        Cardinality(c) = n /\ \A k \in c : p \in DOMAIN ins[k] }

\* n-ocular fusion: union over the size-n combinations of the pointwise-min
\* intersection of the in-scene sets
RefFusion(ins, n) ==
    [p \in {q \in UNION {DOMAIN ins[k] : k \in DOMAIN ins} : CombosHolding(ins, n, q) # {}} |->
        SetMax({ SetMin({ins[k][p] : k \in c}) : c \in CombosHolding(ins, n, p) })]

\* the on-the-fly degree of one point: max over the size-n combinations of
\* the min of the cameras' own membership degrees
RefFallback(cams, n, p) ==
    SetMax({ SetMin({MuOf[cams[k]][p] : k \in c}) :
             c \in {d \in SUBSET (DOMAIN cams) : Cardinality(d) = n} })

\* ------------------------------------------------------------------------
\* Properties
\* ------------------------------------------------------------------------
\* C1: immediately after a successful add_camera and immediately after
\* add_point, the dirty flag is set (model_updated is False).
C1_WritersInvalidate ==
    (status = "ready" /\ op \in {"add_camera", "add_point"} /\ err = "ok")
        => ~model_updated

\* C2: whenever the dirty flag is clear (model_updated is True), the model is
\* the n-ocular fusion of the cameras' current in-scene sets.
C2_CleanFlagMeansFused ==
    (status = "ready" /\ model_updated) => model = RefFusion(inscene, ocular)

\* what a reader returns when the model is recomputed from the current
\* in-scene sets before it is read
FreshMu(p) ==
    LET m == RefFusion(inscene, ocular)
    IN  IF p \in DOMAIN m THEN m[p] ELSE RefFallback(cameras, ocular, p)

FreshPerformance(desired) == Overlap(RefFusion(inscene, ocular), desired)

\* C3: a reader (mu, performance) called while the dirty flag is set returns
\* the value derived from the current per-camera in-scene sets, never a
\* value read from a stale model.
C3_ReadersSeeFreshModel ==
    [][ (op' \in {"mu", "performance"} /\ ~model_updated /\ Enough /\ err' = "ok")
            => ret' = IF op' = "mu" THEN FreshMu(arg'.point)
                                    ELSE FreshPerformance(arg'.desired) ]_vars

\* C4: a tracked point that is occluded from a camera is not a key of that
\* camera's in-scene set, whatever camera.mu(point) is; and every degree of a
\* freshly fused model is attained by a combination of cameras none of
\* which the point is occluded from.
C4_OccludedNeverInScene ==
    status = "ready" =>
        /\ \A k \in DOMAIN cameras : \A p \in points :
                OccludedOf[cameras[k]][p] => p \notin DOMAIN inscene[k]
        /\ (op = "update_model" /\ err = "ok") =>
                \A p \in DOMAIN model :
                    \E c \in SUBSET (DOMAIN cameras) :
                        /\ Cardinality(c) = ocular
                        /\ \A k \in c : ~OccludedOf[cameras[k]][p]
                        /\ model[p] = SetMin({MuOf[cameras[k]][p] : k \in c})

\* a fused model holds a point that one camera of the network would cover
\* with a positive degree but is occluded from
C4_Witness ==
    /\ status = "ready" /\ op = "update_model" /\ err = "ok"
    /\ \E k \in DOMAIN cameras : \E p \in points :
            /\ OccludedOf[cameras[k]][p]
            /\ MuOf[cameras[k]][p] > 0
            /\ p \notin DOMAIN inscene[k]
            /\ p \in DOMAIN model

\* C5: after update_model the model's degree at every point is the maximum
\* over the size-ocular combinations of the minimum of the cameras' in-scene
\* degrees; with ocular = 1 it is the union of all in-scene sets; with two
\* cameras, ocular = 2 and degrees 0.8 and 0.6 the degree is 0.6.
C5_UpdateModelFuses ==
    (status = "ready" /\ op = "update_model" /\ err = "ok") =>
        /\ model = RefFusion(inscene, ocular)
        /\ ocular = 1 =>
            /\ DOMAIN model = UNION {DOMAIN inscene[k] : k \in DOMAIN inscene}
            /\ \A p \in DOMAIN model :
                    model[p] = SetMax({inscene[k][p] :
                                        k \in {j \in DOMAIN inscene : p \in DOMAIN inscene[j]}})
        /\ (ocular = 2 /\ Cardinality(DOMAIN cameras) = 2) =>
            \A p \in points :
                (\A k \in DOMAIN inscene : p \in DOMAIN inscene[k])
                /\ {inscene[k][p] : k \in DOMAIN inscene}
                        = {(8 * Scale) \div 10, (6 * Scale) \div 10}
                => (p \in DOMAIN model /\ model[p] = (6 * Scale) \div 10)

\* the 0.8 / 0.6 example, and three cameras fused two by two
C5_Witness ==
    /\ status = "ready" /\ op = "update_model" /\ err = "ok" /\ ocular = 2
    /\ DOMAIN cameras = {"a", "b"}
    /\ \E p \in points :
            /\ p \in DOMAIN inscene["a"] /\ inscene["a"][p] = (8 * Scale) \div 10
            /\ p \in DOMAIN inscene["b"] /\ inscene["b"][p] = (6 * Scale) \div 10
            /\ p \in DOMAIN model /\ model[p] = (6 * Scale) \div 10

\* C6: with fewer cameras than the ocular degree, update_model() and
\* mu(point) fail with the too-few-cameras error and leave the model, the
\* dirty flag and every in-scene set as they were.
C6_TooFewCamerasFails ==
    [][ (op' \in {"update_model", "mu"} /\ status = "ready" /\ ~Enough)
            => /\ err' = "ValueError"
               /\ ret' = NoValue
               /\ UNCHANGED <<model, model_updated, inscene, cameras, points>> ]_vars

\* mu has failed on a network that tracks covered points with too few cameras
C6_Witness ==
    /\ status = "ready" /\ op = "mu" /\ err = "ValueError" /\ ~Enough
    /\ \E k \in DOMAIN inscene : inscene[k] # EmptyFuzzySet

\* C7: with at least ocular cameras, mu(point) returns the cached degree when
\* the point is a key of the model, and otherwise returns, without raising,
\* the maximum over the size-ocular combinations of the minimum of the
\* cameras' membership degrees.
C7_MuAnswers ==
    (status = "ready" /\ op = "mu" /\ Enough) =>
        /\ err = "ok"
        /\ ret = IF arg.point \in DOMAIN model THEN model[arg.point]
                 ELSE RefFallback(cameras, ocular, arg.point)

\* C8: a camera added under a new name to a network whose model is up to
\* date, followed by update_model, gives a model that holds every point of
\* the earlier model with a degree at least as large.
C8_AddingCameraIsMonotone ==
    (status = "ready" /\ op = "update_model" /\ err = "ok" /\ snapshot.taken) =>
        \A p \in DOMAIN snapshot.model :
            p \in DOMAIN model /\ model[p] >= snapshot.model[p]

\* a third camera joined a 2-ocular network and raised the degree of a point
C8_Witness ==
    /\ status = "ready" /\ op = "update_model" /\ err = "ok" /\ snapshot.taken
    /\ ocular = 2
    /\ Cardinality(DOMAIN cameras) = 3
    /\ \E p \in DOMAIN snapshot.model : model[p] > snapshot.model[p]

\* C9: MultiCamera(ocular) with ocular < 1 raises; a constructed network has
\* ocular >= 1, and update_model enumerates combinations of exactly ocular
\* cameras.
C9_OcularAtLeastOne ==
    /\ op = "construct" =>
            IF arg.ocular < 1
            THEN status = "failed" /\ err = "ValueError"
            ELSE status = "ready" /\ err = "ok" /\ ocular = arg.ocular
    /\ status = "failed" => op = "construct"
    /\ status = "ready" => (ocular >= 1 /\ \A n \in combSizes : n = ocular)
    /\ (status = "ready" /\ op = "update_model" /\ err = "ok") => combSizes = {ocular}

\* update_model has fused three cameras two by two
C9_Witness ==
    /\ status = "ready" /\ op = "update_model" /\ err = "ok"
    /\ ocular = 2 /\ combSizes = {2}
    /\ Cardinality(DOMAIN cameras) = 3
    /\ model # EmptyFuzzySet

\* a grid of plain and directional points Camera.mu is evaluated on
ProbeSet ==
    { Pt(x, y, z) : x \in -2..2, y \in -1..1, z \in -1..5 }
    \cup { DPt(x, y, z, rho, eta) : x \in -2..2, y \in -1..1, z \in -1..5,
                                    rho \in {0, 60, 90, 120, 180},
                                    eta \in {0, 90, 180, 270} }

InUnit(v) == v >= 0 /\ v <= Scale

\* for each camera: the four terms and their product lie in [0,1] at every
\* probe point
TermsInUnit ==
    [cam \in CameraSet |->
        \A p \in ProbeSet \cup PointSet :
            LET cp == InvMap(cam.pose, p)
            IN  /\ InUnit(MuV(cam, cp))
                /\ InUnit(MuR(cam, cp))
                /\ InUnit(MuF(cam, cp))
                /\ InUnit(MuD(cam, cp))
                /\ InUnit(CameraMu(cam, p))]

\* C10: Camera.mu(point) lies in [0,1] for plain and directional points, as
\* do its visibility, resolution, focus and direction terms; every degree
\* stored in an in-scene set or in the model lies in [0,1].
C10_DegreesInUnitInterval ==
    status = "ready" =>
        /\ \A k \in DOMAIN cameras : TermsInUnit[cameras[k]]
        /\ \A k \in DOMAIN inscene : \A p \in DOMAIN inscene[k] : InUnit(inscene[k][p])
        /\ \A p \in DOMAIN model : InUnit(model[p])

\* the model holds a directional point whose direction term is partial for
\* one camera and clamped from above 1 for another point
C10_Witness ==
    /\ status = "ready" /\ model_updated
    /\ \E k \in DOMAIN cameras : \E p \in DOMAIN inscene[k] :
            /\ p.dir
            /\ MuD(cameras[k], InvMap(cameras[k].pose, p)) > 0
            /\ MuD(cameras[k], InvMap(cameras[k].pose, p)) < Scale
            /\ p \in DOMAIN model /\ model[p] > 0 /\ model[p] < Scale
    /\ \E k \in DOMAIN cameras : \E p \in DOMAIN inscene[k] :
            p.dir /\ DirRaw(cameras[k], InvMap(cameras[k].pose, p)) > Scale

\* ------------------------------------------------------------------------
\* Camera.mu called on its own (coverage.py, Camera.mu)
\* ------------------------------------------------------------------------
ZeroDiv == "ZeroDivisionError"

\* try: ... except E: the exceptions of the body that the handler lets through
Escaping(raised, caught) == raised \ caught

\* campoint.x / campoint.z
VisRaised(cp) == IF cp.z = 0 THEN {ZeroDiv} ELSE {}

\* campoint.y / r and campoint.x / r
TermARaised(cp) == IF RScaled(cp) = 0 THEN {ZeroDiv} ELSE {}

\* r / campoint.z
TermBRaised(cp) == IF cp.z = 0 THEN {ZeroDiv} ELSE {}

\* (...) / self.zeta, outside every try block
DirRaised(cam) == IF cam.zeta = 0 THEN {ZeroDiv} ELSE {}

\* the exceptions Camera.mu(point) lets out to its caller
MuRaised(cam, point) ==
    LET cp == InvMap(cam.pose, point)
    IN  Escaping(VisRaised(cp), {ZeroDiv})
        \cup (IF cp.dir
              THEN Escaping(TermARaised(cp), {ZeroDiv})
                   \cup Escaping(TermBRaised(cp), {ZeroDiv})
                   \cup DirRaised(cam)
              ELSE {})

\* a camera whose direction fuzzifier is zero
CamZ == MkCamera(Wide, Wide, Res, Focus, 0, MkPose(0, 0, 0, "I"))

\* the cameras Camera.mu is called on
MuCameraSet == CameraSet \cup {CamZ}

\* the locals of Camera.mu at its return statement, with the value returned
MuLocals(cam, point) ==
    LET cp == InvMap(cam.pose, point)
    IN  [mu_v  |-> MuV(cam, cp),
         terma |-> IF cp.dir THEN TermA(cp) ELSE Scale,
         termb |-> IF cp.dir THEN TermB(cp) ELSE 90,
         mu    |-> CameraMu(cam, point)]

\* a Camera and a point are chosen; nothing has been called yet
InitCamera ==
    /\ status = "new"
    /\ ocular = 0
    /\ cameras = EmptyDict
    /\ inscene = EmptyDict
    /\ points = {}
    /\ model = EmptyFuzzySet
    /\ model_updated = FALSE
    /\ combSizes = {}
    /\ snapshot = NoSnapshot
    /\ op = "none"
    /\ err = "ok"
    /\ ret = NoValue
    /\ arg \in [camera : MuCameraSet, point : ProbeSet]
    /\ items = EmptyDict
    /\ lasers = {}
    /\ calls = << >>
    /\ streak = 0
    /\ networks = [n \in NetNames |-> NoNetwork]
    /\ default_points = {}

\* arg.camera.mu(arg.point)
CallCameraMu ==
    /\ op = "none"
    /\ op' = "camera_mu"
    /\ IF MuRaised(arg.camera, arg.point) = {}
       THEN err' = "ok" /\ ret' = MuLocals(arg.camera, arg.point)
       ELSE err' = ZeroDiv /\ ret' = NoValue
    /\ UNCHANGED <<status, snapshot, arg>>
    /\ UNCHANGED <<netVars, pairVars>>
    /\ UNCHANGED rangeVars

NextCamera == CallCameraMu

SpecCamera == InitCamera /\ [][NextCamera]_vars

\* the point of the last Camera.mu call, in the camera's frame
LastCampoint == InvMap(arg.camera.pose, arg.point)

\* C11: Camera.mu never lets a division by zero out: with z = 0 the
\* visibility is 0 and so is the result; for a directional point with r = 0
\* terma is 1.0 and with z = 0 termb is pi/2; the call returns a value.
C11_MuNeverRaisesZeroDivision ==
    op = "camera_mu" =>
        /\ err = "ok"
        /\ LastCampoint.z = 0 => ret.mu_v = 0 /\ ret.mu = 0
        /\ LastCampoint.dir /\ RScaled(LastCampoint) = 0 => ret.terma = Scale
        /\ LastCampoint.dir /\ LastCampoint.z = 0 => ret.termb = 90

\* C17: the visibility is the smaller of the horizontal number at x / z and
\* the vertical number at y / z.
C17_VisibilityUsesBothAxes ==
    op = "camera_mu" /\ err = "ok" /\ LastCampoint.z # 0 =>
        ret.mu_v = Min2(TrapMu(arg.camera.Cv[1],
                               Quot(LastCampoint.x * Scale, LastCampoint.z)),
                        TrapMu(arg.camera.Cv[2],
                               Quot(LastCampoint.y * Scale, LastCampoint.z)))

\* ------------------------------------------------------------------------
\* In-scene sets, fusion order and frame of update_model
\* ------------------------------------------------------------------------
\* the tracked points a camera sees unoccluded, each with camera.mu(p)
SeenBy(cam, pts) ==
    { <<p, MuOf[cam][p]>> : p \in {q \in pts : MuOf[cam][q] > 0 /\ ~OccludedOf[cam][q]} }

\* a fuzzy set as its set of (point, degree) pairs
Elements(fs) == { <<p, fs[p]>> : p \in DOMAIN fs }

\* C16: after any sequence of add_camera and add_point, every camera's
\* in-scene set is exactly {(p, camera.mu(p)) : p tracked, mu > 0, p not
\* occluded from the camera}; the incremental add_point and the full
\* update_inscene agree, also when a point is added twice.
C16_InsceneMatchesTrackedPoints ==
    status = "ready" =>
        /\ DOMAIN inscene = DOMAIN cameras
        /\ \A k \in DOMAIN cameras :
               Elements(inscene[k]) = SeenBy(cameras[k], points)

\* a tracked point has just been added a second time to a network of two
\* or more cameras, one seeing both tracked points and one seeing only one
C16_Witness ==
    /\ status = "ready" /\ op = "add_point" /\ arg.again
    /\ Cardinality(points) = 2
    /\ Cardinality(DOMAIN cameras) >= 2
    /\ \E k \in DOMAIN cameras : DOMAIN inscene[k] = points
    /\ \E k \in DOMAIN cameras : Cardinality(DOMAIN inscene[k]) = 1

\* every way to walk the n-camera combinations of names: the combinations in
\* any sequence, the cameras of each combination in any sequence
Orderings(names, n) ==
    LET C == {d \in SUBSET names : Cardinality(d) = n}
        T == UNION {PermsOf(d) : d \in C}
    IN  { t \in [1..Cardinality(C) -> T] :
            {{t[i][j] : j \in 1..n} : i \in DOMAIN t} = C }

\* self.model |= submodel for the first k submodels, one after the other
RECURSIVE UnionInOrder(_, _)
UnionInOrder(subs, k) ==
    IF k = 0 THEN EmptyFuzzySet
    ELSE FuzzyUnion(UnionInOrder(subs, k - 1), subs[k])

\* the model update_model builds when it walks the combinations as t does
FuseInOrder(ins, t, n) ==
    UnionInOrder([i \in DOMAIN t |-> Submodel(ins, t[i], n)], Len(t))

\* C18: the model update_model builds does not depend on the order the
\* cameras were inserted in, on the order the combinations are enumerated in,
\* or on the order of the cameras within a combination.
C18_FusionOrderIndependent ==
    (status = "ready" /\ op = "update_model" /\ err = "ok") =>
        \A t \in Orderings(DOMAIN cameras, ocular) :
            FuseInOrder(inscene, t, ocular) = model

\* update_model has fused three cameras two by two; two of them give a
\* common point different degrees and two combinations differ in what they hold
C18_Witness ==
    /\ status = "ready" /\ op = "update_model" /\ err = "ok"
    /\ ocular = 2 /\ Cardinality(DOMAIN cameras) = 3
    /\ Cardinality(Orderings(DOMAIN cameras, ocular)) > 1
    /\ \E k1, k2 \in DOMAIN cameras : \E p \in DOMAIN model :
            /\ p \in DOMAIN inscene[k1] /\ p \in DOMAIN inscene[k2]
            /\ inscene[k1][p] # inscene[k2][p]
    /\ \E c, d \in Combinations(DOMAIN cameras, ocular) :
            Submodel(inscene, c, ocular) # Submodel(inscene, d, ocular)

TanDeg(a) == CASE a = 0 -> 0
               [] a = 45 -> Scale

\* pose.map(point): the point of the pose's frame, in world coordinates
PoseMap(pose, p) ==
    IF pose.R = "I"
    THEN [p EXCEPT !.x = p.x + pose.T.x, !.y = p.y + pose.T.y, !.z = p.z + pose.T.z]
    ELSE [p EXCEPT !.x = p.x + pose.T.x, !.y = pose.T.y - p.y, !.z = pose.T.z - p.z,
                   !.rho = IF p.dir THEN 180 - p.rho ELSE 0,
                   !.eta = IF p.dir THEN (360 - p.eta) % 360 ELSE 0]

\* pose + Pose(T = t): the pose followed by a translation
Translated(pose, t) ==
    [pose EXCEPT !.T = [x |-> pose.T.x + t.x, y |-> pose.T.y + t.y, z |-> pose.T.z + t.z]]

\* a triangle: its three vertices in the frame of the object that owns it
Tri(a, b, c) == <<a, b, c>>

\* triangle.mapped_triangle.vertices for a triangle of obj
MappedVertices(obj, tri) == [i \in 1..3 |-> PoseMap(obj.pose, tri[i])]

\* twice the signed area of o, a, b seen from above
Cross2(o, a, b) == (a.x - o.x) * (b.y - o.y) - (a.y - o.y) * (b.x - o.x)

\* Triangle.intersection(origin, end) for a triangle in a plane of constant z
\* and a segment parallel to the z axis: the set holding the meeting point,
\* empty when there is none
TriangleIntersection(v, origin, end) ==
    LET h  == v[1].z
        p  == Pt(origin.x, origin.y, h)
        d1 == Cross2(v[1], v[2], p)
        d2 == Cross2(v[2], v[3], p)
        d3 == Cross2(v[3], v[1], p)
    IN  IF /\ Min2(origin.z, end.z) <= h /\ h <= Max2(origin.z, end.z)
           /\ ~((d1 < 0 \/ d2 < 0 \/ d3 < 0) /\ (d1 > 0 \/ d2 > 0 \/ d3 > 0))
        THEN {p}
        ELSE {}

\* LineLaser(name, fan, depth, pose)
MkLineLaser(fan, depth, pose) ==
    [class |-> "LineLaser", fan |-> fan, depth |-> depth, pose |-> pose,
     triangles |-> << >>]

\* a scene object with opaque triangles, to be scanned
MkTarget(triangles, pose) ==
    [class |-> "SceneObject", pose |-> pose, triangles |-> triangles]

\* a range camera: where it stands and how far to its sides it sees
MkRangeCamera(pose, reach) ==
    [class |-> "RangeCamera", pose |-> pose, reach |-> reach, triangles |-> << >>]

\* at the origin, projecting along +z in the plane y = 0
TheLaser == MkLineLaser(90, 4, MkPose(0, 0, 0, "I"))

\* a near facet at height 2 and a far facet at height 3, both between y = 0
\* and y = 2 of the target's frame
NearFacet == Tri(Pt(0, 0, 2), Pt(3, 0, 2), Pt(0, 2, 2))

FarFacet == Tri(Pt(-3, 0, 3), Pt(3, 0, 3), Pt(-3, 2, 3))

TheTarget == MkTarget(<<NearFacet, FarFacet>>, MkPose(0, 0, 0, "I"))

\* the same facets listed the other way round, one unit further along y
OtherTarget == MkTarget(<<FarFacet, NearFacet>>, MkPose(0, 1, 0, "I"))

TheRangeCamera == MkRangeCamera(MkPose(1, 0, 0, "I"), 2)

\* the opaque plate of the range scene: it hides (-3, 0, 3) from the laser
RangeScene == { Plate(1, -2, -1, -1, 1) }

\* Model.occluded(point, obj): the scene blocks the view from obj to point
ModelOccluded(its, point, key) == Occluded(RangeScene, point, its[key].pose.T)

\* ------------------------------------------------------------------------
\* RangeModel.project
\* ------------------------------------------------------------------------
\* width = depth * tan(fan / 2), scaled
FanWidth(laser) == laser.depth * TanDeg(laser.fan \div 2)

\* x = int(-width / lpitch) * lpitch; while x < width: ...; x += lpitch
SweepOffsets(laser, lpitch) ==
    LET x0 == Quot(-FanWidth(laser), lpitch * Scale) * lpitch
        n  == Cardinality({k \in 0..(2 * laser.depth) :
                              (x0 + k * lpitch) * Scale < FanWidth(laser)})
    IN  [k \in 1..n |-> x0 + (k - 1) * lpitch]

\* the exception project raises, or "ok"
ProjectRaised(ls, its, laser, target, lpitch) ==
    IF laser \notin ls THEN "KeyError"
    ELSE IF laser \notin DOMAIN its THEN "KeyError"
    ELSE IF its[laser].class # "LineLaser" THEN "AttributeError"
    ELSE IF Len(SweepOffsets(its[laser], lpitch)) > 0 /\ target \notin DOMAIN its
         THEN "KeyError"
    ELSE "ok"

\* faulty variant of NearestInFan: a later intersection within the fan
\* always replaces the candidate
RECURSIVE LastInFan(_, _, _, _, _)
LastInFan(laser, vs, origin, end, k) ==
    IF k = 0 THEN {}
    ELSE LET cp  == LastInFan(laser, vs, origin, end, k - 1)
             hit == TriangleIntersection(vs[k], origin, end)
         IN  IF hit = {} THEN cp
             ELSE LET ip == InvMap(laser.pose, CHOOSE q \in hit : TRUE)
                  IN  IF Abs(ip.x) * Scale > ip.z * TanDeg(laser.fan \div 2) THEN cp
                      ELSE {ip}

\* the inner for loop over the first k triangles of the target: cp, as the
\* set holding it, empty while cp is None
RECURSIVE NearestInFan(_, _, _, _, _)
NearestInFan(laser, vs, origin, end, k) ==
    IF k = 0 THEN {}
    ELSE LET cp  == NearestInFan(laser, vs, origin, end, k - 1)
             hit == TriangleIntersection(vs[k], origin, end)
         IN  IF hit = {} THEN cp
             ELSE LET ip == InvMap(laser.pose, CHOOSE q \in hit : TRUE)
                  IN  IF Abs(ip.x) * Scale > ip.z * TanDeg(laser.fan \div 2) THEN cp
                      ELSE IF cp = {} \/ ip.z < (CHOOSE c \in cp : TRUE).z THEN {ip}
                      ELSE cp

\* one pass of the while loop at offset x: the laser-local point it puts in
\* the cache, as a set
EmittedAt(its, laser, target, x) ==
    LET origin == PoseMap(its[laser].pose, Pt(x, 0, 0))
        end    == PoseMap(its[laser].pose, Pt(x, 0, its[laser].depth))
        tris   == its[target].triangles
        vs     == [i \in DOMAIN tris |-> MappedVertices(its[target], tris[i])]
        cp     == NearestInFan(its[laser], vs, origin, end, Len(vs))
    IN  { c \in cp : ~ModelOccluded(its, PoseMap(its[laser].pose, c), laser) }

\* the points of the Task project returns: each a directional point facing
\* back along the laser axis, with weight 1.0
ProjectPoints(its, laser, target, lpitch) ==
    LET xs == SweepOffsets(its[laser], lpitch)
        ps == UNION { EmittedAt(its, laser, target, xs[k]) : k \in DOMAIN xs }
    IN  [p \in { DPt(c.x, c.y, c.z, 180, 0) : c \in ps } |-> Scale]

\* the objects project is asked to scan: the targets at each place the
\* transport puts them, and the range camera
ScannedObjects ==
    { [t EXCEPT !.pose = MkPose(0, y, 0, "I")] : t \in {TheTarget, OtherTarget},
                                                y \in -3..2 }
    \cup {TheRangeCamera}

\* ProjectPoints for the laser and each scanned object, evaluated once
ProjectPointsOf ==
    [t \in ScannedObjects |-> [lpitch \in {1, 2} |->
        ProjectPoints([k \in {"l", "t"} |-> IF k = "l" THEN TheLaser ELSE t],
                      "l", "t", lpitch)]]

\* ------------------------------------------------------------------------
\* RangeModel.range_coverage
\* ------------------------------------------------------------------------
\* the default of the subset parameter
NoSubset == {"*"}

\* the cameras Model.coverage evaluates
ActiveCameras(its, subset) ==
    { k \in DOMAIN its : its[k].class = "RangeCamera" /\ (subset = NoSubset \/ k \in subset) }

\* the exception Model.coverage raises, or "ok": a subset naming a key the
\* model does not hold fails
CoverageRaised(its, subset) ==
    IF subset # NoSubset /\ ~(subset \subseteq DOMAIN its) THEN "KeyError" ELSE "ok"

\* the strength one range camera gives a world point
RangeStrength(cam, p) ==
    LET d == Abs(p.x - cam.pose.T.x)
    IN  IF d < cam.reach THEN Scale ELSE IF d = cam.reach THEN Scale \div 2 ELSE 0

\* Model.coverage(task, subset): every point of the task, in world
\* coordinates, with the best strength among the active cameras
Coverage(its, laser, task, subset) ==
    [p \in { PoseMap(its[laser].pose, q) : q \in DOMAIN task } |->
        SetMax({0} \cup { RangeStrength(its[k], p) : k \in ActiveCameras(its, subset) })]

\* taxis.normal for a vector along one coordinate axis
Normal(v) == [x |-> Sgn(v.x), y |-> Sgn(v.y), z |-> Sgn(v.z)]

\* taxis * vertex
Dot(v, w) == v.x * w.x + v.y * w.y + v.z * w.z

\* every pv = taxis * vertex of the two nested loops
Projections(obj, axis) ==
    { Dot(axis, MappedVertices(obj, obj.triangles[i])[j]) :
        i \in DOMAIN obj.triangles, j \in 1..3 }

\* gv: the greatest pv
Greatest(obj, axis) == SetMax(Projections(obj, axis))

\* lv: the least pv
Least(obj, axis) == SetMin(Projections(obj, axis))

\* faulty variant of StepCount: the quotient rounded up
StepCountCeil(obj, axis, tpitch) ==
    (Greatest(obj, axis) - Least(obj, axis) + tpitch - 1) \div tpitch

\* steps = int((gv - lv) / float(tpitch))
StepCount(obj, axis, tpitch) ==
    Quot(Greatest(obj, axis) - Least(obj, axis), tpitch)

\* original_pose + Pose(T = (tpitch * i - gv) * taxis)
StepPose(original, axis, gv, tpitch, i) ==
    Translated(original, [x |-> (tpitch * i - gv) * axis.x,
                          y |-> (tpitch * i - gv) * axis.y,
                          z |-> (tpitch * i - gv) * axis.z])

\* cache[key] = value for every key of g, later writes replacing earlier ones
Overwrite(f, g) ==
    [p \in (DOMAIN f) \cup (DOMAIN g) |-> IF p \in DOMAIN g THEN g[p] ELSE f[p]]

\* what one pass of the for loop leaves behind, given what project and
\* coverage raised in it, the profile coverage prof, and the poses: the
\* exception, the pose the target is in, and the profile coverage mapped back
\* into the target's original frame
PassOutcome(perr, cerr, prof, original, pose) ==
    [err  |-> IF perr # "ok" THEN perr ELSE cerr,
     pose |-> pose,
     back |-> IF perr # "ok" \/ cerr # "ok" THEN EmptyFuzzySet
              ELSE [q \in { PoseMap(original, InvMap(pose, p)) : p \in DOMAIN prof }
                      |-> prof[PoseMap(pose, InvMap(original, q))]]]

\* the body of the for loop with the target already at its step pose in here
PassAt(here, ls, a, original) ==
    PassOutcome(ProjectRaised(ls, here, a.laser, a.target, a.lpitch),
                CoverageRaised(here, a.subset),
                IF ProjectRaised(ls, here, a.laser, a.target, a.lpitch) = "ok"
                THEN Coverage(here, a.laser, ProjectPointsOf[here[a.target]][a.lpitch],
                              a.subset)
                ELSE EmptyFuzzySet,
                original, here[a.target].pose)

\* pass i of the for loop over range(steps), taken alone
TransportStep(its, ls, a, i) ==
    PassAt([its EXCEPT ![a.target].pose =
                StepPose(its[a.target].pose, Normal(a.taxis),
                         Greatest(its[a.target], Normal(a.taxis)), a.tpitch, i)],
           ls, a, its[a.target].pose)

\* the loop as a whole, given its passes: it stops at the first pass that
\* raises; the caches hold, for each point, what the last pass that wrote it
\* stored; the target is left where the last pass entered put it
LoopOutcome(step, original) ==
    LET failed  == {i \in DOMAIN step : step[i].err # "ok"}
        entered == {i \in DOMAIN step : \A j \in failed : i <= j}
        done    == entered \ failed
        written == UNION {DOMAIN step[i].back : i \in done}
    IN  [err      |-> IF failed = {} THEN "ok" ELSE step[SetMin(failed)].err,
         coverage |-> [q \in written |->
                          step[SetMax({i \in done : q \in DOMAIN step[i].back})].back[q]],
         task     |-> [q \in written |-> Scale],
         calls    |-> [k \in 1..Cardinality(entered) |-> step[k - 1].pose],
         pose     |-> IF entered = {} THEN original ELSE step[SetMax(entered)].pose]

\* the for loop over range(n)
TransportSteps(its, ls, a, n) ==
    LoopOutcome([i \in 0..(n - 1) |-> TransportStep(its, ls, a, i)], its[a.target].pose)

\* self[target].set_absolute_pose(original_pose), reached only when the
\* loop has not raised
Restored(run, original) ==
    IF run.err = "ok" THEN [run EXCEPT !.pose = original] ELSE run

\* a call that runs no transport: the exception it raises, empty caches, the
\* target where it was
Refused(e, original) ==
    [err |-> e, coverage |-> EmptyFuzzySet, task |-> EmptyFuzzySet,
     calls |-> << >>, pose |-> original]

\* faulty variant of RangeCoverageRun: the transport runs whatever the style
RangeCoverageRunAnyStyle(its, ls, a) ==
    IF Len(its[a.target].triangles) = 0
    THEN Refused("OverflowError", its[a.target].pose)
    ELSE Restored(TransportSteps(its, ls, a,
                      StepCount(its[a.target], Normal(a.taxis), a.tpitch)),
                  its[a.target].pose)

\* range_coverage from its first line to the exit it takes; the pose is
\* restored by the one statement that follows the if / elif / else
RangeCoverageRun(its, ls, a) ==
    IF a.tstyle = "linear"
    THEN IF Len(its[a.target].triangles) = 0
         THEN Refused("OverflowError", its[a.target].pose)
         ELSE Restored(TransportSteps(its, ls, a,
                           StepCount(its[a.target], Normal(a.taxis), a.tpitch)),
                       its[a.target].pose)
    ELSE Refused("ValueError", its[a.target].pose)

\* ------------------------------------------------------------------------
\* RangeModel: operations
\* ------------------------------------------------------------------------
\* the item assignments made: a laser or a camera under "l", a camera under
\* "c", a target under "t"
Assignable ==
    { <<"l", TheLaser>>, <<"l", TheRangeCamera>>, <<"c", TheRangeCamera>>,
      <<"t", TheTarget>>, <<"t", OtherTarget>> }

LpitchSet == {1, 2}

TpitchSet == {1, 2, 3}

TaxisSet == { [x |-> 0, y |-> 1, z |-> 0], [x |-> 0, y |-> -2, z |-> 0] }

TstyleSet == {"linear", "rotary", "spiral"}

\* the arguments range_coverage is called with: every linear transport of
\* the target, one of the camera (an object without triangles), and the
\* other styles along +y
RangeArgs ==
    [laser : {"l"}, target : {"t"}, lpitch : {1}, tpitch : TpitchSet,
     taxis : TaxisSet, tstyle : {"linear"}, subset : {NoSubset, {"c"}}]
    \cup [laser : {"l"}, target : {"c"}, lpitch : {1}, tpitch : {1},
          taxis : {[x |-> 0, y |-> 1, z |-> 0]}, tstyle : {"linear"},
          subset : {NoSubset}]
    \cup [laser : {"l"}, target : {"t"}, lpitch : {1}, tpitch : {1},
          taxis : {[x |-> 0, y |-> 1, z |-> 0]}, tstyle : TstyleSet \ {"linear"},
          subset : {NoSubset}]

\* model[key] = value
SetItem(key, value) ==
    /\ op' = "setitem"
    /\ arg' = NoArg
    /\ err' = "ok"
    /\ ret' = NoValue
    /\ lasers' = IF value.class = "LineLaser" THEN lasers \cup {key} ELSE lasers
    /\ items' = DictSet(items, key, value)
    /\ calls' = << >>
    /\ streak' = 0
    /\ UNCHANGED <<status, snapshot>>
    /\ UNCHANGED <<netVars, pairVars>>

\* del model[key]
DelItem(key) ==
    /\ op' = "delitem"
    /\ arg' = NoArg
    /\ ret' = NoValue
    /\ lasers' = lasers \ {key}
    /\ IF key \in DOMAIN items
       THEN err' = "ok" /\ items' = [k \in (DOMAIN items) \ {key} |-> items[k]]
       ELSE err' = "KeyError" /\ items' = items
    /\ calls' = << >>
    /\ streak' = 0
    /\ UNCHANGED <<status, snapshot>>
    /\ UNCHANGED <<netVars, pairVars>>

\* faulty variant of Project: the target is stepped along y and left there
ProjectMovingTarget(laser, target, lpitch) ==
    /\ target \in DOMAIN items
    /\ op' = "project"
    /\ arg' = [laser |-> laser, target |-> target, lpitch |-> lpitch]
    /\ err' = ProjectRaised(lasers, items, laser, target, lpitch)
    /\ ret' = IF err' = "ok" THEN ProjectPointsOf[items[target]][lpitch] ELSE NoValue
    /\ items' = IF err' = "ok" /\ items[target].pose.T.y > -2
                THEN [items EXCEPT ![target].pose =
                          Translated(@, [x |-> 0, y |-> -1, z |-> 0])]
                ELSE items
    /\ calls' = << >>
    /\ streak' = IF op = "project" /\ arg = arg' THEN 2 ELSE 1
    /\ UNCHANGED <<status, snapshot, lasers>>
    /\ UNCHANGED <<netVars, pairVars>>

\* model.project(task_params, laser, target, lpitch)
Project(laser, target, lpitch) ==
    /\ op' = "project"
    /\ arg' = [laser |-> laser, target |-> target, lpitch |-> lpitch]
    /\ err' = ProjectRaised(lasers, items, laser, target, lpitch)
    /\ ret' = IF err' = "ok" THEN ProjectPointsOf[items[target]][lpitch] ELSE NoValue
    /\ calls' = << >>
    /\ streak' = IF op = "project" /\ arg = arg' THEN 2 ELSE 1
    /\ UNCHANGED <<status, snapshot, items, lasers>>
    /\ UNCHANGED <<netVars, pairVars>>

\* model.range_coverage(task, laser, target, lpitch, tpitch, taxis, tstyle, subset)
RangeCoverage(a) ==
    /\ op' = "range_coverage"
    /\ arg' = a
    /\ streak' = 0
    /\ IF a.target \notin DOMAIN items
       THEN /\ err' = "KeyError"
            /\ ret' = NoValue
            /\ calls' = << >>
            /\ items' = items
       ELSE \E run \in {RangeCoverageRun(items, lasers, a)} :
                /\ err' = run.err
                /\ ret' = IF run.err = "ok"
                          THEN [coverage |-> run.coverage, task |-> run.task]
                          ELSE NoValue
                /\ calls' = run.calls
                /\ items' = [items EXCEPT ![a.target].pose = run.pose]
    /\ UNCHANGED <<status, snapshot, lasers>>
    /\ UNCHANGED <<netVars, pairVars>>

NextRange ==
    \/ \E kv \in Assignable : SetItem(kv[1], kv[2])
    \/ \E key \in {"l", "t", "c"} : DelItem(key)
    \/ \E laser \in {"l", "c"} : \E target \in {"t", "c"} : \E lpitch \in LpitchSet :
            Project(laser, target, lpitch)
    \/ \E a \in RangeArgs : RangeCoverage(a)

SpecRange == Init /\ [][NextRange]_vars

\* ------------------------------------------------------------------------
\* RangeModel: properties
\* ------------------------------------------------------------------------
\* C12: range_coverage leaves the target's pose as it was at the call on
\* every exit path, also when a transport step raises after the target has
\* been translated.
C12_TargetPoseRestored ==
    [][ (op' = "range_coverage" /\ arg'.target \in DOMAIN items) =>
            items'[arg'.target].pose = items[arg'.target].pose ]_vars

\* the projections of the target's vertices on the normalized transport axis
\* of the last call
VertexProjections ==
    LET obj  == items[arg.target]
        axis == Normal(arg.taxis)
    IN  { axis.x * (obj.pose.T.x + obj.triangles[i][j].x)
          + axis.y * (obj.pose.T.y + obj.triangles[i][j].y)
          + axis.z * (obj.pose.T.z + obj.triangles[i][j].z) :
            i \in DOMAIN obj.triangles, j \in 1..3 }

\* int((max - min) / tpitch) for the last call
ExpectedSteps ==
    (CHOOSE m \in VertexProjections : \A v \in VertexProjections : v <= m)
    - (CHOOSE m \in VertexProjections : \A v \in VertexProjections : m <= v)

\* C13: a linear range_coverage that returns has called project exactly
\* int((max - min) / tpitch) times, max and min being the extreme projections
\* of the target's triangle vertices on the normalized axis; when that count
\* is 0 it has not called project and returns an empty coverage and an empty
\* task point cache.
C13_StepCount ==
    (op = "range_coverage" /\ arg.tstyle = "linear" /\ err = "ok") =>
        /\ Len(calls) = ExpectedSteps \div arg.tpitch
        /\ ExpectedSteps < arg.tpitch =>
               /\ calls = << >>
               /\ ret.coverage = EmptyFuzzySet
               /\ ret.task = EmptyFuzzySet

\* a linear transport over an extent shorter than one step has returned, for
\* a laser and a target that give points at a finer pitch
C13_Witness ==
    /\ op = "range_coverage" /\ arg.tstyle = "linear" /\ err = "ok"
    /\ arg.laser \in lasers /\ items[arg.laser].class = "LineLaser"
    /\ ExpectedSteps = 2 /\ arg.tpitch = 3
    /\ calls = << >> /\ ret.coverage = EmptyFuzzySet

InFanAt(x) ==
    LET laser  == items[arg.laser]
        target == items[arg.target]
        origin == PoseMap(laser.pose, Pt(x, 0, 0))
        end    == PoseMap(laser.pose, Pt(x, 0, laser.depth))
        hits   == UNION { TriangleIntersection(MappedVertices(target, target.triangles[i]),
                                               origin, end) : i \in DOMAIN target.triangles }
    IN  { ip \in { InvMap(laser.pose, q) : q \in hits } :
            Abs(ip.x) * Scale <= ip.z * TanDeg(laser.fan \div 2) }

\* what the claim lets project emit at offset x
ExpectedAt(x) ==
    { DPt(c.x, c.y, c.z, 180, 0) :
        c \in { b \in InFanAt(x) :
                  /\ \A d \in InFanAt(x) : b.z <= d.z
                  /\ ~Occluded(RangeScene, PoseMap(items[arg.laser].pose, b),
                               items[arg.laser].pose.T) } }

\* C19: for each sweep offset x project emits at most one point, the
\* intersection with the smallest laser-local z among those with
\* |x_local| <= z_local * tan(fan / 2), and nothing if there is none or the
\* laser is occluded there; each point emitted is directional with rho = pi,
\* eta = 0 and weight 1.0; an unknown laser id fails before any point.
C19_ProjectEmitsNearestInFan ==
    op = "project" =>
        /\ arg.laser \notin lasers => (err = "KeyError" /\ ret = NoValue)
        /\ err = "ok" =>
              LET xs == SweepOffsets(items[arg.laser], arg.lpitch)
              IN  /\ DOMAIN ret = UNION { ExpectedAt(xs[k]) : k \in DOMAIN xs }
                  /\ \A k \in DOMAIN xs :
                        Cardinality({p \in DOMAIN ret : p.x = xs[k]}) <= 1
                  /\ \A p \in DOMAIN ret :
                        p.dir /\ p.rho = 180 /\ p.eta = 0 /\ ret[p] = Scale

\* project has swept the target at pitch 1: at x = 3 the near facet is
\* outside the fan and the far one is emitted, elsewhere the near facet is
\* emitted in front of the far one, and at x = -3 the plate hides the facet
C19_Witness ==
    /\ op = "project" /\ err = "ok" /\ arg.lpitch = 1
    /\ \E p \in DOMAIN ret : p.x = 3 /\ p.z = 3
    /\ \E p \in DOMAIN ret : p.x = 1 /\ p.z = 2
    /\ ~\E p \in DOMAIN ret : p.x = -3
    /\ InFanAt(-3) # {}
    /\ Cardinality(InFanAt(1)) = 2

\* C21: in every state a RangeModel reaches by item assignments and
\* deletions, lasers holds exactly the keys bound to a LineLaser: a key is in
\* lasers only if it is a key of the model and its value is a LineLaser, also
\* after a key once bound to a laser is assigned a camera.
C21_LasersAreLaserKeys ==
    lasers = { k \in DOMAIN items : items[k].class = "LineLaser" }

\* ------------------------------------------------------------------------
\* Two MultiCamera objects side by side (coverage.py, class MultiCamera)
\* ------------------------------------------------------------------------
\* the camera name, the cameras, the points and the ocular arguments used
\* with the two networks
PairKeys == {"a"}

PairCameras == {CamA, CamC}

PairPoints == {Pt(0, 0, 2), Pt(2, 0, 2)}

PairOculars == {0, 1}

\* how the caller gives points: left out, so that the parameter's default
\* value is used, or a new empty set passed as points = set()
GivenSet == {"default", "fresh"}

\* self.points of network n: the object it refers to, read now
Tracked(n) == IF networks[n].shared THEN default_points ELSE networks[n].own

\* self.points.add(point) on network n, as seen through default_points
DefaultAfterAdd(n, point) ==
    IF networks[n].shared THEN default_points \cup {point} ELSE default_points

\* self.points.add(point) on network n, as seen through its own set
OwnAfterAdd(n, point) ==
    IF networks[n].shared THEN networks[n].own ELSE networks[n].own \cup {point}

\* n = MultiCamera(ocular = o), or n = MultiCamera(ocular = o, points = set())
NewNetwork(n, o, given) ==
    /\ ~networks[n].built
    /\ op' = "construct"
    /\ arg' = [net |-> n, ocular |-> o, given |-> given]
    /\ ret' = NoValue
    /\ IF o < 1
       THEN /\ err' = "ValueError"
            /\ UNCHANGED networks
       ELSE /\ err' = "ok"
            /\ networks' = [networks EXCEPT ![n] =
                   [built |-> TRUE, shared |-> (given = "default"), own |-> {},
                    ocular |-> o, cameras |-> EmptyDict, inscene |-> EmptyDict,
                    model |-> EmptyFuzzySet, model_updated |-> FALSE,
                    added |-> {}]]
    /\ UNCHANGED <<status, snapshot, default_points>>
    /\ UNCHANGED <<netVars, rangeVars>>

\* n[key] = value: __setitem__, then update_inscene(key)
PairAddCamera(n, key, value) ==
    /\ networks[n].built
    /\ op' = "add_camera"
    /\ arg' = [net |-> n, key |-> key, value |-> value]
    /\ ret' = NoValue
    /\ IF value.class # "Camera"
       THEN /\ err' = "ValueError"
            /\ UNCHANGED networks
       ELSE /\ err' = "ok"
            /\ networks' = [networks EXCEPT
                   ![n].cameras = DictSet(networks[n].cameras, key, value),
                   ![n].inscene = DictSet(networks[n].inscene, key,
                                          InsceneOf(value, Tracked(n))),
                   ![n].model_updated = FALSE]
    /\ UNCHANGED <<status, snapshot, default_points>>
    /\ UNCHANGED <<netVars, rangeVars>>

\* n.add_point(point)
PairAddPoint(n, point) ==
    /\ networks[n].built
    /\ op' = "add_point"
    /\ arg' = [net |-> n, point |-> point]
    /\ ret' = NoValue
    /\ err' = "ok"
    /\ default_points' = DefaultAfterAdd(n, point)
    /\ networks' = [networks EXCEPT
           ![n].own = OwnAfterAdd(n, point),
           ![n].added = networks[n].added \cup {point},
           ![n].inscene = [k \in DOMAIN networks[n].cameras |->
               AddToInscene(networks[n].cameras[k], networks[n].inscene[k], point)]]
    /\ UNCHANGED <<status, snapshot>>
    /\ UNCHANGED <<netVars, rangeVars>>

\* n.update_model()
PairUpdateModel(n) ==
    /\ networks[n].built
    /\ op' = "update_model"
    /\ arg' = [net |-> n]
    /\ ret' = NoValue
    /\ IF Cardinality(DOMAIN networks[n].cameras) < networks[n].ocular
       THEN /\ err' = "ValueError"
            /\ UNCHANGED networks
       ELSE /\ err' = "ok"
            /\ networks' = [networks EXCEPT
                   ![n].model = Fuse(networks[n].inscene, networks[n].ocular),
                   ![n].inscene = InsceneAfterUpdate(networks[n].inscene,
                                                     networks[n].ocular),
                   ![n].model_updated = TRUE]
    /\ UNCHANGED <<status, snapshot, default_points>>
    /\ UNCHANGED <<netVars, rangeVars>>

NextPair ==
    \/ \E n \in NetNames, o \in PairOculars, given \in GivenSet : NewNetwork(n, o, given)
    \/ \E n \in NetNames, key \in PairKeys, value \in PairCameras \cup {NotACamera} :
           PairAddCamera(n, key, value)
    \/ \E n \in NetNames, point \in PairPoints : PairAddPoint(n, point)
    \/ \E n \in NetNames : PairUpdateModel(n)

SpecPair == Init /\ [][NextPair]_vars

\* C22: of two networks each constructed with the default points argument,
\* add_point on one leaves the other's point set, in-scene sets and model as
\* they were, and a camera added to a network is evaluated against the points
\* added to that network only.
C22_NetworksDoNotSharePoints ==
    [][ \A n \in NetNames : \A m \in NetNames \ {n} :
          (networks[n].built /\ networks[n].shared /\
           networks[m].built /\ networks[m].shared)
          => /\ (op' = "add_point" /\ arg'.net = n)
                  => /\ Tracked(m)' = Tracked(m)
                     /\ networks'[m].inscene = networks[m].inscene
                     /\ networks'[m].model = networks[m].model
             /\ (op' = "add_camera" /\ arg'.net = m /\ err' = "ok")
                  => networks'[m].inscene[arg'.key]
                         = InsceneOf(arg'.value, networks[m].added) ]_vars

====
